---- MODULE Spec2Model ----
(***************************************************************************)
(* Model of src/app.py, the Streamlit stock dashboard.  Every widget       *)
(* change re-runs the whole script top to bottom; the only state that      *)
(* survives a re-run is the widget values and the st.cache_data memo of    *)
(* fetch_ohlcv.  A re-run is one action: it evaluates the script on the    *)
(* current widget values and records what the script displayed.            *)
(*                                                                         *)
(* Dates are day numbers, day 1 = 2010-01-01 (a Friday), the default of    *)
(* the start-date widget.  Prices are exact fractions <<num, den>>; a      *)
(* missing value (NaN) is <<0, 0>>.                                        *)
(***************************************************************************)
EXTENDS Integers, Sequences, FiniteSets, TLC

VARIABLES
    market,        \* the data source behind yf.download
    cache,         \* st.cache_data memo of fetch_ohlcv: argument tuple -> result
    netCalls,      \* argument tuple -> number of yf.download calls made for it
    nruns,         \* number of script runs so far in the session
    tickers, start_date, end_date, price_field, frequency, normalize,
    ma1_enabled, ma1_window, ma2_enabled, ma2_window,   \* widget values
    out            \* what the last script run computed and displayed

widgets == <<tickers, start_date, end_date, price_field, frequency, normalize,
             ma1_enabled, ma1_window, ma2_enabled, ma2_window>>
vars == <<market, cache, netCalls, nruns, widgets, out>>

(* ------------------------------ bounds -------------------------------- *)
MaxFirst == 7        \* latest first trading day of a market of the date-rich family
MaxRows == 3         \* most trading days in a market of the date-rich family
MaxLen == 3          \* most trading days in a market of the value-rich family
MaxVal == 2          \* largest price in a market of the value-rich family
MaxWindow == 3       \* largest moving-average window tried (the slider allows 200)
MaxRuns == 3          \* most runs of the script in one session

(* ------------------------- program constants -------------------------- *)
MinWindow == 2
PriceFields == <<"Open", "High", "Low", "Close", "Adj Close", "Volume">>
Frequencies == <<"Daily", "Weekly", "Monthly">>
default_tickers == <<"MSFT", "GE", "AAPL">>
default_start == 1
today == 366
default_field == PriceFields[4]
default_frequency == Frequencies[1]

(* --------------------------- sequences -------------------------------- *)
Range(s) == {s[i] : i \in 1..Len(s)}
Last(q) == q[Len(q)]

IndexOf(seq, x) == CHOOSE i \in 1..Len(seq) : seq[i] = x

RECURSIVE Dedupe(_)
Dedupe(s) ==
    IF s = <<>> THEN <<>>
    ELSE LET r == Dedupe(SubSeq(s, 1, Len(s) - 1))
         IN  IF s[Len(s)] \in Range(r) THEN r ELSE Append(r, s[Len(s)])

RECURSIVE Keep(_, _)
Keep(s, S) ==
    IF s = <<>> THEN <<>>
    ELSE IF Head(s) \in S THEN <<Head(s)>> \o Keep(Tail(s), S)
    ELSE Keep(Tail(s), S)

(* --------------------------- numbers ---------------------------------- *)
NA == <<0, 0>>
IsNA(x) == x[2] = 0

RECURSIVE GCD(_, _)
GCD(a, b) == IF b = 0 THEN a ELSE GCD(b, a % b)

Rat(n, d) == LET g == GCD(n, d) IN <<n \div g, d \div g>>
Num(n) == <<n, 1>>
RatAdd(x, y) == Rat(x[1] * y[2] + y[1] * x[2], x[2] * y[2])
\* NaN propagates through arithmetic; the divisor is never zero where this is used
RatDiv(x, y) == IF IsNA(x) \/ IsNA(y) THEN NA ELSE Rat(x[1] * y[2], x[2] * y[1])
RatMul(x, y) == IF IsNA(x) \/ IsNA(y) THEN NA ELSE Rat(x[1] * y[1], x[2] * y[2])

(* ---------------------------- tables ---------------------------------- *)
\* A DataFrame: index (dates, increasing), columns (names, in order), data[c][i]
Table(idx, cols, d) == [index |-> idx, columns |-> cols, data |-> d]
NoTable == Table(<<>>, <<>>, [c \in {} |-> <<>>])
\* DataFrame.empty: some axis has length 0
IsEmpty(t) == Len(t.index) = 0 \/ Len(t.columns) = 0
AllNA(col) == \A i \in 1..Len(col) : IsNA(col[i])
\* Series.dropna()
DropNA(col) == SelectSeq(col, LAMBDA x : ~IsNA(x))


(* ------------------------ yf.download (line 12) ----------------------- *)
Symbols == Range(default_tickers)
AllFields == Range(PriceFields)
\* A raw result: data[f][s][i] for field f, symbol s, i-th date of index
Raw(idx, flds, cols, d) == [index |-> idx, fields |-> flds, columns |-> cols, data |-> d]
NoRaw == Raw(<<>>, {}, <<>>, [f \in {} |-> <<>>])
RawEmptyNever(r) == FALSE
RawEmpty(r) == Len(r.index) = 0 \/ Len(r.columns) = 0 \/ r.fields = {}

Pick(col, pos) == [k \in 1..Len(pos) |-> col[pos[k]]]

RECURSIVE Ascending(_)
\* the numbers of a finite set, in increasing order
Ascending(S) ==
    IF S = {} THEN <<>>
    ELSE LET lo == CHOOSE x \in S : \A y \in S : x <= y
         IN  <<lo>> \o Ascending(S \ {lo})

\* The download: one column per requested symbol (each once), one row per day in
\* [start, end) on which some requested symbol has a quote.  A symbol without
\* quotes keeps an all-missing column; a range with start >= end has no rows.
Download(m, tks, start, end) ==
    LET cols == Dedupe(tks)
        Quoted(i) == /\ start <= m.days[i]
                     /\ m.days[i] < end
                     /\ \E f \in m.fields, s \in Range(cols) : ~IsNA(m.quotes[f][s][i])
        pos == Ascending({i \in 1..Len(m.days) : Quoted(i)})
    IN  Raw(Pick(m.days, pos), m.fields, cols,
            [f \in m.fields |-> [s \in Range(cols) |-> Pick(m.quotes[f][s], pos)]])

(* ---------------------- st.cache_data (line 10) ----------------------- *)
CacheKey(tks, start, end) == <<tks, start, end>>
CacheHitNever(c, key) == FALSE
CacheHit(c, key) == key \in DOMAIN c

(* ------------------------ field selection (56) ------------------------ *)
SelectField(r, f) == Table(r.index, r.columns, r.data[f])

(* -------------------------- resample (58-63) -------------------------- *)
\* pandas "W" is W-SUN: a week is labelled by the Sunday that ends it.
\* Day 3 (2010-01-03) is a Sunday.
WeekEnd(d) == d + ((7 - ((d + 4) % 7)) % 7)
\* pandas "M": a month is labelled by its last calendar day (2010)
MonthEnds == <<31, 59, 90, 120, 151, 181, 212, 243, 273, 304, 334, 365>>
MonthOf(d) == CHOOSE k \in 1..Len(MonthEnds) :
                  /\ d <= MonthEnds[k]
                  /\ k > 1 => MonthEnds[k - 1] < d
MonthEnd(d) == MonthEnds[MonthOf(d)]
Bucket(freq, d) == IF freq = "Weekly" THEN WeekEnd(d) ELSE MonthEnd(d)
NextBucket(freq, b) == IF freq = "Weekly" THEN b + 7 ELSE MonthEnd(b + 1)

RECURSIVE BucketsFrom(_, _, _)
\* every bucket from b through last, with or without observations
BucketsFrom(freq, b, last) ==
    IF b > last THEN <<>> ELSE <<b>> \o BucketsFrom(freq, NextBucket(freq, b), last)

Max(S) == CHOOSE x \in S : \A y \in S : y <= x

\* .first() in place of .last()
FirstIn(col, idx, freq, b) ==
    LET S == {i \in 1..Len(idx) : Bucket(freq, idx[i]) = b /\ ~IsNA(col[i])}
    IN  IF S = {} THEN NA ELSE col[CHOOSE x \in S : \A y \in S : x <= y]

\* .last(): the last non-missing value of the bucket, missing if there is none
LastIn(col, idx, freq, b) ==
    LET S == {i \in 1..Len(idx) : Bucket(freq, idx[i]) = b /\ ~IsNA(col[i])}
    IN  IF S = {} THEN NA ELSE col[Max(S)]

ResampleLast(t, freq) ==
    IF Len(t.index) = 0 THEN t
    ELSE LET bs == BucketsFrom(freq, Bucket(freq, t.index[1]),
                               Bucket(freq, t.index[Len(t.index)]))
         IN  Table(bs, t.columns,
                   [c \in Range(t.columns) |->
                       [k \in 1..Len(bs) |-> LastIn(t.data[c], t.index, freq, bs[k])]])

Resample(t, freq) == IF freq = "Daily" THEN t ELSE ResampleLast(t, freq)

(* -------------------- dropna(axis=1, how="all") (65) ------------------ *)
DropNoColumn(t) == t
DropAllNAColumns(t) ==
    LET keep == {c \in Range(t.columns) : ~AllNA(t.data[c])}
    IN  Table(t.index, Keep(t.columns, keep), [c \in keep |-> t.data[c]])

(* -------------------------- normalize (70-77) ------------------------- *)
ColDiv(col, v) == [i \in 1..Len(col) |-> RatDiv(col[i], v)]
ColMul(col, v) == [i \in 1..Len(col) |-> RatMul(col[i], v)]
AllMissing(n) == [i \in 1..n |-> NA]

\* the divisor taken from the first row instead of the first non-missing value
NormalizeByFirstRow(col) ==
    IF col # <<>> /\ col[1][1] # 0
    THEN ColMul(ColDiv(col, col[1]), Num(100))
    ELSE AllMissing(Len(col))

NormalizeColumn(col) ==
    LET s == DropNA(col)
    IN  IF s # <<>> /\ s[1][1] # 0
        THEN ColMul(ColDiv(col, s[1]), Num(100))
        ELSE AllMissing(Len(col))

Normalize(t) ==
    Table(t.index, t.columns, [c \in Range(t.columns) |-> NormalizeColumn(t.data[c])])

(* ------------------------ rolling mean (89, 94) ----------------------- *)
RECURSIVE SumOf(_, _, _)
SumOf(col, a, b) == IF a > b THEN Num(0) ELSE RatAdd(col[a], SumOf(col, a + 1, b))

\* rolling(w, min_periods=1).mean(): the mean of the values the window holds
RollingMeanPartial(col, w) ==
    [i \in 1..Len(col) |->
        LET S == {j \in 1..i : j > i - w /\ ~IsNA(col[j])}
            lo == CHOOSE x \in S : \A y \in S : x <= y
        IN  IF S = {} THEN NA
            ELSE IF \E j \in lo..i : IsNA(col[j]) THEN col[lo]
            ELSE RatDiv(SumOf(col, lo, i), Num(i - lo + 1))]

\* rolling(w).mean(): min_periods is w, so a window with fewer than w
\* non-missing values has no mean
RollingMean(col, w) ==
    [i \in 1..Len(col) |->
        IF i < w \/ \E j \in (i - w + 1)..i : IsNA(col[j])
        THEN NA
        ELSE RatDiv(SumOf(col, i - w + 1, i), Num(w))]


(* ----------------------- the figure (83-96) --------------------------- *)
Trace(n, ys, d) == [name |-> n, y |-> ys, dash |-> d]
MANameNoWindow(t, w) == t \o " MA"
MAName(t, w) == t \o " MA" \o ToString(w)

BaseTraces(df) ==
    [k \in 1..Len(df.columns) |->
        Trace(df.columns[k], df.data[df.columns[k]], "solid")]

MATraces(df, w, d) ==
    [k \in 1..Len(df.columns) |->
        Trace(MAName(df.columns[k], w), RollingMean(df.data[df.columns[k]], w), d)]

\* a moving-average block that stores its series in the table it reads
MABlockInPlace(env, enabled, w, d) ==
    IF enabled
    THEN LET df == env.df_to_plot
             added == [k \in 1..Len(df.columns) |-> MAName(df.columns[k], w)]
         IN  [df_to_plot |->
                 Table(df.index, df.columns \o added,
                       [c \in Range(df.columns) \cup Range(added) |->
                           IF c \in Range(df.columns) THEN df.data[c]
                           ELSE RollingMean(df.data[df.columns[IndexOf(added, c)]], w)]),
              fig |-> env.fig \o MATraces(df, w, d)]
    ELSE env

\* lines 87-91 and 92-96: env holds the script's df_to_plot and fig
MABlock(env, enabled, w, d) ==
    IF enabled
    THEN [env EXCEPT !.fig = @ \o MATraces(env.df_to_plot, w, d)]
    ELSE env

(* ------------------------ the script (17-108) ------------------------- *)
\* line 79
Dropped(tks, df) == Keep(tks, Range(tks) \ Range(df.columns))

\* st.stop(): nothing below the call is evaluated
Halted(df_full, c, n, errs, stgs, f) ==
    [cache |-> c, netCalls |-> n, errors |-> errs, warnings |-> <<>>,
     stages |-> stgs, fetched |-> f, df_full |-> df_full,
     df_price |-> NoTable, df_resampled |-> NoTable, df_to_plot |-> NoTable,
     fig |-> <<>>, table |-> NoTable, chart |-> FALSE, halted |-> TRUE]

\* lines 56-108, reached with a non-empty df_full that has the price field
Pipeline(w, df_full, c, n, errs, f) ==
    LET df_price == SelectField(df_full, w.price_field)
        df_resampled == DropAllNAColumns(Resample(df_price, w.frequency))
    IN  IF IsEmpty(df_resampled)
        THEN Halted(df_full, c, n, errs \o <<"NoDataAfterResample">>,
                    <<"fetch", "select", "resample">>, f)
        ELSE
        LET df_norm == IF w.normalize THEN Normalize(df_resampled) ELSE df_resampled
            dropped == Dropped(w.tickers, df_norm)
            e0 == [df_to_plot |-> df_norm, fig |-> BaseTraces(df_norm)]
            e1 == MABlock(e0, w.ma1_enabled, w.ma1_window, "dash")
            e2 == MABlock(e1, w.ma2_enabled, w.ma2_window, "dot")
        IN  [cache |-> c, netCalls |-> n, errors |-> errs,
             warnings |-> IF dropped # <<>> THEN <<dropped>> ELSE <<>>,
             stages |-> <<"fetch", "select", "resample", "normalize",
                          "moving_average", "present">>,
             fetched |-> f, df_full |-> df_full,
             df_price |-> df_price, df_resampled |-> df_resampled,
             df_to_plot |-> e2.df_to_plot,
             fig |-> e2.fig, table |-> e2.df_to_plot, chart |-> TRUE,
             halted |-> FALSE]

\* One run of the script on widget values w, with memo c and call counts n
Script(w, m, c, n) ==
    LET errs == IF w.start_date >= w.end_date
                THEN <<"StartNotBeforeEnd">> ELSE <<>>      \* lines 26-27
    IN  IF w.tickers = <<>>                                 \* lines 42-44
        THEN Halted(NoRaw, c, n, errs \o <<"NoTickers">>, <<>>, 0)
        ELSE
        LET key == CacheKey(w.tickers, w.start_date, w.end_date)
            hit == CacheHit(c, key)
            df_full == IF hit THEN c[key]
                       ELSE Download(m, w.tickers, w.start_date, w.end_date)
            c2 == IF hit THEN c ELSE (key :> df_full) @@ c
            n2 == IF hit THEN n
                  ELSE (key :> (IF key \in DOMAIN n THEN n[key] + 1 ELSE 1)) @@ n
            f == IF hit THEN 0 ELSE 1
        IN  IF RawEmpty(df_full)                            \* lines 48-50
            THEN Halted(df_full, c2, n2, errs \o <<"EmptyData">>, <<"fetch">>, f)
            ELSE IF w.price_field \notin df_full.fields     \* lines 52-54
            THEN Halted(df_full, c2, n2, errs \o <<"FieldUnavailable">>, <<"fetch">>, f)
            ELSE Pipeline(w, df_full, c2, n2, errs, f)


(* ---------------------------- markets --------------------------------- *)
\* A market: the trading days, the fields the provider serves, and
\* quotes[f][s][i], the quote of field f of symbol s on days[i] (NA: none)
Market(ds, flds, q) == [days |-> ds, fields |-> flds, quotes |-> q]

\* Session family: three trading days (Mon 4 to Wed 6 Jan 2010); the symbols
\* of `listed` have quotes, the fields of `blank` are served without values.
SessionDays == <<4, 5, 6>>
SessionQuote(f, s, i) == Num(10 * IndexOf(default_tickers, s) + IndexOf(PriceFields, f) + i)
SessionMarket(listed, flds, blank) ==
    Market(SessionDays, flds,
           [f \in flds |-> [s \in Symbols |->
               [i \in 1..Len(SessionDays) |->
                   IF s \in listed /\ f \notin blank THEN SessionQuote(f, s, i) ELSE NA]]])
ListedChoices == {{}, {"MSFT"}, {"MSFT", "GE"}, Symbols}
FieldsChoices == {AllFields, AllFields \ {"Adj Close"}}
BlankChoices == {{}, {"Volume"}}
SessionMarkets(L) ==
    {SessionMarket(l, a, b) : l \in L, a \in FieldsChoices, b \in BlankChoices}

\* Value-rich family: MSFT trades on consecutive days from Mon 4 Jan 2010 with
\* any quotes of 0..MaxVal or none; GE has the same days with no quote or a
\* constant one; AAPL has none.  Every field carries the same quotes.
Quotes == {NA} \cup {Num(v) : v \in 0..MaxVal}
ValueMarket(col, ge) ==
    Market([i \in 1..Len(col) |-> 3 + i], AllFields,
           [f \in AllFields |-> [s \in Symbols |->
               IF s = "MSFT" THEN col
               ELSE IF s = "GE" THEN [i \in 1..Len(col) |-> ge]
               ELSE AllMissing(Len(col))]])
ValueMarkets(len) ==
    {ValueMarket(col, ge) :
        col \in UNION {[1..n -> Quotes] : n \in 1..len}, ge \in {NA, Num(1)}}

\* Date-rich family: MSFT alone trades, on at most MaxRows days: a first day
\* of 1..MaxFirst, then gaps of a day, a weekend, one or two weeks, one or
\* two months.  The quote of the i-th trading day is i.
GapChoices == {1, 3, 7, 14, 31, 59}
RECURSIVE DaySeqs(_)
\* the sequences of n trading days
DaySeqs(n) ==
    IF n = 1 THEN {<<d>> : d \in 1..MaxFirst}
    ELSE {Append(ds, Last(ds) + g) : ds \in DaySeqs(n - 1), g \in GapChoices}
DateMarket(ds) ==
    Market(ds, AllFields,
           [f \in AllFields |-> [s \in Symbols |->
               IF s = "MSFT" THEN [i \in 1..Len(ds) |-> Num(i)]
               ELSE AllMissing(Len(ds))]])
DateMarkets(n) == {DateMarket(ds) : ds \in UNION {DaySeqs(k) : k \in 1..n}}

(* --------------------------- the session ------------------------------ *)
W == [tickers |-> tickers, start_date |-> start_date, end_date |-> end_date,
      price_field |-> price_field, frequency |-> frequency, normalize |-> normalize,
      ma1_enabled |-> ma1_enabled, ma1_window |-> ma1_window,
      ma2_enabled |-> ma2_enabled, ma2_window |-> ma2_window]

default_ma1_window == 20
default_ma2_window == 50
Defaults ==
    [tickers |-> default_tickers, start_date |-> default_start, end_date |-> today,
     price_field |-> default_field, frequency |-> default_frequency,
     normalize |-> FALSE,
     ma1_enabled |-> FALSE, ma1_window |-> default_ma1_window,
     ma2_enabled |-> FALSE, ma2_window |-> default_ma2_window]

NoCache == [k \in {} |-> NoRaw]
NoCalls == [k \in {} |-> 0]

\* The widgets take the values w and the script runs on them
Rerun(w) ==
    LET r == Script(w, market, cache, netCalls)
    IN  /\ tickers' = w.tickers
        /\ start_date' = w.start_date
        /\ end_date' = w.end_date
        /\ price_field' = w.price_field
        /\ frequency' = w.frequency
        /\ normalize' = w.normalize
        /\ ma1_enabled' = w.ma1_enabled
        /\ ma1_window' = w.ma1_window
        /\ ma2_enabled' = w.ma2_enabled
        /\ ma2_window' = w.ma2_window
        /\ cache' = r.cache
        /\ netCalls' = r.netCalls
        /\ out' = [x \in DOMAIN r \ {"cache", "netCalls"} |-> r[x]]
        /\ UNCHANGED market

\* The page is opened: the script runs once on the widget defaults
Open(M) ==
    /\ market \in M
    /\ tickers = Defaults.tickers
    /\ start_date = Defaults.start_date
    /\ end_date = Defaults.end_date
    /\ price_field = Defaults.price_field
    /\ frequency = Defaults.frequency
    /\ normalize = Defaults.normalize
    /\ ma1_enabled = Defaults.ma1_enabled
    /\ ma1_window = Defaults.ma1_window
    /\ ma2_enabled = Defaults.ma2_enabled
    /\ ma2_window = Defaults.ma2_window
    /\ nruns = 1
    /\ LET r == Script(Defaults, market, NoCache, NoCalls)
       IN  /\ cache = r.cache
           /\ netCalls = r.netCalls
           /\ out = [x \in DOMAIN r \ {"cache", "netCalls"} |-> r[x]]

TickerChoices == {<<>>, <<"MSFT">>, <<"GE", "MSFT">>, <<"MSFT", "MSFT">>, default_tickers}
DateChoices == {default_start, 5, today}
WindowChoices == MinWindow..MaxWindow

\* One widget changes; Streamlit re-runs the script
SetTickers == \E v \in TickerChoices \ {tickers} : Rerun([W EXCEPT !.tickers = v])
SetStartDate == \E v \in DateChoices \ {start_date} : Rerun([W EXCEPT !.start_date = v])
SetEndDate == \E v \in DateChoices \ {end_date} : Rerun([W EXCEPT !.end_date = v])
SetPriceField == \E v \in AllFields \ {price_field} : Rerun([W EXCEPT !.price_field = v])
SetFrequency == \E v \in Range(Frequencies) \ {frequency} : Rerun([W EXCEPT !.frequency = v])
ToggleNormalize == Rerun([W EXCEPT !.normalize = ~normalize])
ToggleMA1 == Rerun([W EXCEPT !.ma1_enabled = ~ma1_enabled])
SetMA1Window == \E v \in WindowChoices \ {ma1_window} : Rerun([W EXCEPT !.ma1_window = v])
ToggleMA2 == Rerun([W EXCEPT !.ma2_enabled = ~ma2_enabled])
SetMA2Window == \E v \in WindowChoices \ {ma2_window} : Rerun([W EXCEPT !.ma2_window = v])

\* A session: any widget may change, up to MaxRuns runs
Counted == nruns < MaxRuns /\ nruns' = nruns + 1
Init == Open(SessionMarkets(ListedChoices))
Next ==
    \/ Counted /\ SetTickers
    \/ Counted /\ SetStartDate
    \/ Counted /\ SetEndDate
    \/ Counted /\ SetPriceField
    \/ Counted /\ SetFrequency
    \/ Counted /\ ToggleNormalize
    \/ Counted /\ ToggleMA1
    \/ Counted /\ SetMA1Window
    \/ Counted /\ ToggleMA2
    \/ Counted /\ SetMA2Window
Spec == Init /\ [][Next]_vars

\* The chart settings of a session on the default symbol list and date range
InitMA == Open(SessionMarkets(ListedChoices))
NextMA ==
    \/ ToggleNormalize /\ UNCHANGED nruns
    \/ ToggleMA1 /\ UNCHANGED nruns
    \/ SetMA1Window /\ UNCHANGED nruns
    \/ ToggleMA2 /\ UNCHANGED nruns
    \/ SetMA2Window /\ UNCHANGED nruns
SpecMA == InitMA /\ [][NextMA]_vars

\* Normalisation and one moving average over the value-rich markets
InitValues == Open(ValueMarkets(MaxLen))
NextValues ==
    \/ ToggleNormalize /\ UNCHANGED nruns
    \/ ToggleMA1 /\ UNCHANGED nruns
    \/ SetMA1Window /\ UNCHANGED nruns
SpecValues == InitValues /\ [][NextValues]_vars

\* Resampling over the date-rich markets
InitResample == Open(DateMarkets(MaxRows))
NextResample == SetFrequency /\ UNCHANGED nruns
SpecResample == InitResample /\ [][NextResample]_vars


(* ============================ properties ============================== *)
ValidRange == start_date < end_date
Shown == ~out.halted
NoOutput == /\ ~out.chart
            /\ out.fig = <<>>
            /\ out.table = NoTable

\* C1: a run whose start date is not before its end date halts with
\* InvalidConfig: it performs no fetch and produces no chart series or table.
C1_InvalidRangeHalts ==
    start_date >= end_date =>
        /\ out.halted
        /\ out.errors = <<"StartNotBeforeEnd">>
        /\ out.fetched = 0
        /\ out.stages = <<>>
        /\ NoOutput

\* C2: a run with a non-empty symbol list whose fetch returns an empty result
\* halts with EmptyData before field selection, resampling, normalisation or
\* moving averages are evaluated, produces no chart or table, and fetches at
\* most once.
C2_EmptyDataHalts ==
    (tickers # <<>> /\ (out.df_full.index = <<>> \/ out.df_full.columns = <<>>)) =>
        /\ out.halted
        /\ Last(out.errors) = "EmptyData"
        /\ out.stages = <<"fetch">>
        /\ NoOutput
        /\ out.fetched <= 1
        /\ netCalls[CacheKey(tickers, start_date, end_date)] = 1
C2_Witness ==
    /\ tickers # <<>>
    /\ ValidRange
    /\ out.df_full.index = <<>>
    /\ out.fetched = 1
    /\ out.errors = <<"EmptyData">>

\* C3: over a session the network retrieval is made at most once per argument
\* tuple (symbols, start, end); a run on a tuple fetched before takes the
\* memoized result without fetching, whatever other setting changed, and no
\* cache entry is ever removed or replaced.
C3_FetchedOncePerKey ==
    /\ [](\A k \in DOMAIN netCalls : netCalls[k] <= 1)
    /\ [][/\ \A k \in DOMAIN cache : k \in DOMAIN cache' /\ cache'[k] = cache[k]
          /\ LET key == CacheKey(tickers', start_date', end_date')
             IN  (tickers' # <<>> /\ key \in DOMAIN cache) =>
                     /\ out'.fetched = 0
                     /\ netCalls' = netCalls
                     /\ out'.df_full = cache[key]]_vars
C3_Witness ==
    /\ nruns > 1
    /\ out.fetched = 0
    /\ Shown
    /\ price_field # default_field
    /\ DOMAIN cache = {CacheKey(tickers, start_date, end_date)}


\* the requested symbols with a quote of the selected field in [start, end)
Observed ==
    {t \in Range(tickers) :
        \E i \in 1..Len(market.days) :
            /\ start_date <= market.days[i]
            /\ market.days[i] < end_date
            /\ ~IsNA(market.quotes[price_field][t][i])}
NoDuplicates(q) == \A i, j \in 1..Len(q) : q[i] = q[j] => i = j

\* C7: in a run that reaches the output stage the final table's columns are
\* requested symbols, none twice, and are exactly the requested symbols that
\* have an observation in range; the SymbolDropped warning is issued iff a
\* requested symbol is absent from the table, names exactly the absent
\* symbols, and the chart and table are still produced.
C7_ColumnsAreObservedSymbols ==
    Shown =>
        LET cols == out.table.columns
            absent == Range(tickers) \ Range(cols)
        IN  /\ Range(cols) \subseteq Range(tickers)
            /\ NoDuplicates(cols)
            /\ Range(cols) = Observed
            /\ (out.warnings # <<>>) <=> (absent # {})
            /\ Len(out.warnings) <= 1
            /\ out.warnings # <<>> => Range(out.warnings[1]) = absent
            /\ out.chart
            /\ out.table = out.df_to_plot
            /\ Len(out.fig) >= Len(cols)
C7_Witness ==
    /\ Shown
    /\ out.warnings = <<<<"AAPL">>>>
    /\ Range(out.table.columns) = {"MSFT", "GE"}
    /\ out.chart

\* C10: every run either halts with exactly one error and no chart or table,
\* or produces the chart and table with no error; the checks run in the order
\* empty symbol list (before any fetch), EmptyData, FieldUnavailable,
\* NoDataAfterResample, and the first failing check halts the run.
C10_OneErrorOrOutput ==
    \/ /\ out.halted
       /\ Len(out.errors) = 1
       /\ NoOutput
       /\ out.errors[1] = "NoTickers" => out.fetched = 0 /\ out.stages = <<>>
       /\ out.errors[1] \in {"EmptyData", "FieldUnavailable"} => out.stages = <<"fetch">>
    \/ /\ ~out.halted
       /\ out.chart
       /\ out.table = out.df_to_plot
       /\ out.errors = <<>>


(* the traces of the figure: base lines are solid, MA1 dashed, MA2 dotted *)
Lines(d) == SelectSeq(out.fig, LAMBDA t : t.dash = d)
Names(q) == [k \in 1..Len(q) |-> q[k].name]
Enabled1 == IF ma1_enabled THEN 1 ELSE 0
Enabled2 == IF ma2_enabled THEN 1 ELSE 0
SameWindowTwice == ma1_enabled /\ ma2_enabled /\ ma1_window = ma2_window
Suffixed(cols, w) == [k \in 1..Len(cols) |-> cols[k] \o " MA" \o ToString(w)]
SeriesCountAndNames ==
    LET cols == out.table.columns
    IN  /\ Len(out.fig) = Len(cols) * (1 + Enabled1 + Enabled2)
        /\ Names(Lines("solid")) = cols
        /\ Names(Lines("dash")) = (IF ma1_enabled THEN Suffixed(cols, ma1_window) ELSE <<>>)
        /\ Names(Lines("dot")) = (IF ma2_enabled THEN Suffixed(cols, ma2_window) ELSE <<>>)

\* C8 as stated: the output is exactly k*(1+m) named series, the base series
\* named by the symbol and each overlay "{symbol} MA{window}", and each name
\* identifies one series, also when MA1 and MA2 have the same window.
C8_NamesIdentifySeries ==
    Shown => SeriesCountAndNames /\ NoDuplicates(Names(out.fig))

\* C8 amended: the count and the names are as stated; the names identify one
\* series each exactly when MA1 and MA2 are not both enabled with the same
\* window: if they are, the two overlays of every symbol carry the same name.
C8_NamesCollideOnEqualWindows ==
    Shown =>
        /\ SeriesCountAndNames
        /\ NoDuplicates(Names(out.fig)) <=> ~SameWindowTwice
        /\ SameWindowTwice => Names(Lines("dash")) = Names(Lines("dot"))
C8_Witness ==
    /\ Shown
    /\ SameWindowTwice
    /\ Len(out.table.columns) = 2
    /\ Len(out.fig) = 6

\* C9: changing the MA1 or MA2 setting leaves the other moving average, the
\* base series and the displayed table unchanged: between two runs that differ
\* only in MA settings the table and base series are the same, and an MA whose
\* own setting did not change has the same series.
C9_MovingAveragesAreIndependent ==
    [][(/\ ~out.halted
        /\ ~out'.halted
        /\ <<tickers, start_date, end_date, price_field, frequency, normalize>>'
             = <<tickers, start_date, end_date, price_field, frequency, normalize>>)
       => /\ out'.table = out.table
          /\ out'.df_to_plot = out.df_to_plot
          /\ Lines("solid")' = Lines("solid")
          /\ <<ma1_enabled, ma1_window>>' = <<ma1_enabled, ma1_window>>
                => Lines("dash")' = Lines("dash")
          /\ <<ma2_enabled, ma2_window>>' = <<ma2_enabled, ma2_window>>
                => Lines("dot")' = Lines("dot")]_vars
C9_Witness ==
    /\ Shown
    /\ ma1_enabled /\ ma1_window = MinWindow
    /\ ma2_enabled /\ ma2_window = MaxWindow
    /\ \E t \in Range(Lines("dot")) : ~IsNA(Last(t.y))
    /\ \E t \in Range(Lines("dash")) : ~IsNA(Last(t.y))


Present(col) == {i \in 1..Len(col) : ~IsNA(col[i])}
Min(S) == CHOOSE x \in S : \A y \in S : x <= y
\* x = a / v * 100 as fractions, by cross-multiplication
IsScaled(x, a, v) == x[2] > 0 /\ x[1] * a[2] * v[1] = x[2] * a[1] * v[2] * 100

\* C4: with normalize on, a column whose first non-missing value v0 is nonzero
\* becomes input / v0 * 100 entry by entry (100 exactly at the position of v0,
\* missing entries stay missing); a column whose v0 is zero or that has no
\* value becomes entirely missing, with no error.  With normalize off the
\* output is the resampled table.
C4_NormalizedToFirstValue ==
    Shown =>
        IF ~normalize THEN out.df_to_plot = out.df_resampled
        ELSE /\ out.df_to_plot.index = out.df_resampled.index
             /\ out.df_to_plot.columns = out.df_resampled.columns
             /\ out.errors = <<>>
             /\ \A c \in Range(out.df_resampled.columns) :
                    LET a == out.df_resampled.data[c]
                        x == out.df_to_plot.data[c]
                    IN  /\ Len(x) = Len(a)
                        /\ IF Present(a) # {} /\ a[Min(Present(a))][1] # 0
                           THEN /\ x[Min(Present(a))] = <<100, 1>>
                                /\ \A i \in 1..Len(a) :
                                      IF IsNA(a[i]) THEN IsNA(x[i])
                                      ELSE IsScaled(x[i], a[i], a[Min(Present(a))])
                           ELSE \A i \in 1..Len(a) : IsNA(x[i])
C4_Witness ==
    /\ Shown
    /\ normalize
    /\ Range(out.df_to_plot.columns) = {"MSFT", "GE"}
    /\ Len(out.df_resampled.index) = 3
    /\ IsNA(out.df_resampled.data["MSFT"][1])
    /\ out.df_to_plot.data["MSFT"][2] = <<100, 1>>
    /\ out.df_to_plot.data["MSFT"][3] = <<50, 1>>

\* the k-th column of the final table and its MA1 series
Col(k) == out.table.data[out.table.columns[k]]
MA1(k) == Lines("dash")[k].y
Complete(col, i, w) == \A j \in (i - w + 1)..i : ~IsNA(col[j])
IsMean(x, col, i, w) == ~IsNA(x) /\ RatMul(x, Num(w)) = SumOf(col, i - w + 1, i)

\* C5 as stated: for every column and window W the moving average at row i is
\* absent for i < W-1 (0-based) and is the mean of rows i-W+1..i for every
\* i >= W-1, also in columns that contain missing entries.
C5_MeanFromRowW ==
    (Shown /\ ma1_enabled) =>
        \A k \in 1..Len(out.table.columns) :
            /\ Len(MA1(k)) = Len(Col(k))
            /\ \A i \in 1..Len(Col(k)) :
                  IF i < ma1_window THEN IsNA(MA1(k)[i])
                  ELSE /\ ~IsNA(MA1(k)[i])
                       /\ Complete(Col(k), i, ma1_window)
                             => IsMean(MA1(k)[i], Col(k), i, ma1_window)

\* C5 amended: the moving average at row i is absent for i < W-1; for
\* i >= W-1 it is the mean of rows i-W+1..i when all W of them hold a value,
\* and absent when any of them is missing.
C5_MeanOfCompleteWindows ==
    (Shown /\ ma1_enabled) =>
        \A k \in 1..Len(out.table.columns) :
            /\ Len(MA1(k)) = Len(Col(k))
            /\ \A i \in 1..Len(Col(k)) :
                  IF i >= ma1_window /\ Complete(Col(k), i, ma1_window)
                  THEN IsMean(MA1(k)[i], Col(k), i, ma1_window)
                  ELSE IsNA(MA1(k)[i])
C5_Witness ==
    /\ Shown
    /\ ma1_enabled
    /\ ma1_window = MinWindow
    /\ Len(Col(1)) = 3
    /\ IsNA(Col(1)[1])
    /\ IsNA(MA1(1)[2])
    /\ MA1(1)[3] = <<3, 2>>

\* the calendar buckets of the input rows of the resampler
RowBuckets == {Bucket(frequency, out.df_price.index[i]) : i \in 1..Len(out.df_price.index)}
Increasing(q) == \A i, j \in 1..Len(q) : i < j => q[i] < q[j]

\* C6 as stated: a Weekly or Monthly resample has one row per bucket that
\* holds an observation, empty buckets are omitted, so it has at most as many
\* rows as its input, and as many only if all input rows are in distinct
\* buckets; also when the dates have gaps of whole weeks or months.
C6_EmptyBucketsOmitted ==
    (Shown /\ frequency # "Daily") =>
        /\ Range(out.df_resampled.index) = RowBuckets
        /\ Len(out.df_resampled.index) <= Len(out.df_price.index)
        /\ Len(out.df_resampled.index) = Len(out.df_price.index)
              => Cardinality(RowBuckets) = Len(out.df_price.index)

\* C6 amended: a Weekly or Monthly resample has one row per calendar bucket
\* from the bucket of the first input row through the bucket of the last one;
\* a bucket with observations holds the last of them, a bucket without holds a
\* missing value in every column.  The rows that hold an observation are at
\* most as many as the input rows, and as many exactly when all input rows
\* are in distinct buckets.
C6_EveryBucketOfTheSpan ==
    (Shown /\ frequency # "Daily") =>
        LET idx == out.df_price.index
            ridx == out.df_resampled.index
            col == out.df_resampled.data["MSFT"]
            RowsIn(b) == {i \in 1..Len(idx) : Bucket(frequency, idx[i]) = b}
        IN  /\ Increasing(ridx)
            /\ Range(ridx) = {Bucket(frequency, d) : d \in idx[1]..idx[Len(idx)]}
            /\ \A k \in 1..Len(ridx) :
                  IF ridx[k] \in RowBuckets
                  THEN col[k] = out.df_price.data["MSFT"][Max(RowsIn(ridx[k]))]
                  ELSE IsNA(col[k])
            /\ Cardinality(Present(col)) <= Len(idx)
            /\ Cardinality(Present(col)) = Len(idx) <=> Cardinality(RowBuckets) = Len(idx)
C6_Witness ==
    /\ Shown
    /\ frequency = "Monthly"
    /\ Len(out.df_price.index) = 2
    /\ Len(out.df_resampled.index) = 3
    /\ Cardinality(RowBuckets) = 2
    /\ IsNA(out.df_resampled.data["MSFT"][2])

====
